---- MODULE Spec2Model ----
\* Model of pinot/tools/validate_transforms.py: the evaluator for the subset
\* of Pinot transform functions (jsonPathString, jsonPathInt, coalesce,
\* fromDateTime), its argument splitter and its JSON-path lookup.
\*
\* Representation.
\*   A Python str is a sequence of one-character strings.
\*   A Python value is a record tagged by its type:
\*     None        [tag |-> "null"]
\*     str         [tag |-> "str",   s |-> <<chars>>]
\*     int         [tag |-> "int",   k |-> q, r |-> m]   value q*1000 + m,
\*                                                       0 <= m < 1000
\*     float       [tag |-> "float", n |-> num, d |-> den]
\*     bool        [tag |-> "bool",  b |-> TRUE/FALSE]
\*     list        [tag |-> "list",  l |-> <<values>>]
\*     dict        [tag |-> "map",   m |-> function from key strings to values]
\*   Python integers are unbounded; epoch milliseconds do not fit the model
\*   checker's machine integers, so an int is kept as its floor quotient and
\*   remainder by 1000 (a canonical form: equal ints have equal records).
EXTENDS Integers, Sequences, FiniteSets, TLC

\* ------------------------------------------------------------------ bounds
\* Largest number of arguments of the generated coalesce(...) calls.
MaxArgs == 2
\* Cap of the evaluation stack of the step machine.  It is above the nesting
\* depth of every expression of the model, so it never blocks a call (a
\* blocked call would stop the evaluation short of "done", against Thm_C5).
MaxDepth == 6

\* ------------------------------------------------------------------ state
\* sample  the sample event every transform is evaluated against (main, l.108)
\* tz      the UTC offset in minutes of the process's local time zone, which
\*         datetime.timestamp() applies to a date-time without offset
\* expr    the transformFunction of the current transform (main, l.117)
\* val     its value (main, l.118)
\* ok      main's flag: no transform so far evaluated to None (l.114-121)
\* pc      position of the program
\* raw, sargs  argument and result of a direct split_top_level_args call
\* stack, ret, calls  the step-by-step evaluation: the frames of the active
\*         eval_expr calls (innermost last), the value the last finished
\*         call returned, and the number of eval_expr calls made
VARIABLES sample, tz, expr, val, ok, pc, raw, sargs, stack, ret, calls

vars == <<sample, tz, expr, val, ok, pc, raw, sargs, stack, ret, calls>>

\* ------------------------------------------------------------- characters
Lower == {"a", "b", "c", "d", "e", "f", "g", "h", "i", "j", "k", "l", "m",
          "n", "o", "p", "q", "r", "s", "t", "u", "v", "w", "x", "y", "z"}
Upper == {"A", "B", "C", "D", "E", "F", "G", "H", "I", "J", "K", "L", "M",
          "N", "O", "P", "Q", "R", "S", "T", "U", "V", "W", "X", "Y", "Z"}
DigitChars == <<"0", "1", "2", "3", "4", "5", "6", "7", "8", "9">>
Digits == {DigitChars[k] : k \in 1..10}
DigitVal(c) == (CHOOSE k \in 1..10 : DigitChars[k] = c) - 1
\* The character class [a-zA-Z0-9_] of FUNC_RE.
IdentChars == Lower \cup Upper \cup Digits \cup {"_"}
\* The characters str.strip() removes, of those the model's texts contain.
Whitespace == {" ", "\t", "\n", "\r"}

\* F(x) with x evaluated first, as Python evaluates an argument before the
\* call (the set binding makes the value of x be computed once).
Apply(F(_), x) == CHOOSE v \in {F(y) : y \in {x}} : TRUE

\* s[a:b] of Python for 1-based inclusive bounds; empty when a > b.
Slice(s, a, b) == IF a > b THEN <<>> ELSE SubSeq(s, a, b)
StartsWith(s, p) == Len(s) >= Len(p) /\ Slice(s, 1, Len(p)) = p
EndsWith(s, p) == Len(s) >= Len(p) /\ Slice(s, Len(s) - Len(p) + 1, Len(s)) = p

\* str.strip()
strip(s) ==
  IF \A i \in 1..Len(s) : s[i] \in Whitespace THEN <<>>
  ELSE SubSeq(s,
              CHOOSE i \in 1..Len(s) :
                s[i] \notin Whitespace /\ \A j \in 1..(i - 1) : s[j] \in Whitespace,
              CHOOSE i \in 1..Len(s) :
                s[i] \notin Whitespace /\ \A j \in (i + 1)..Len(s) : s[j] \in Whitespace)

\* ----------------------------------------------------------------- values
None == [tag |-> "null"]
Str(s) == [tag |-> "str", s |-> s]
MkInt(n) == [tag |-> "int", k |-> n \div 1000, r |-> n % 1000]
\* The int q*1000 + m for 0 <= m < 1000.
BigInt(q, m) == [tag |-> "int", k |-> q, r |-> m]
Float(n, d) == [tag |-> "float", n |-> n, d |-> d]
Bool(b) == [tag |-> "bool", b |-> b]
List(l) == [tag |-> "list", l |-> l]
Map(m) == [tag |-> "map", m |-> m]
EmptyMap == Map([x \in {} |-> None])

\* ------------------------------------------------- split_top_level_args
\* One iteration of the while loop (lines 19-32) on loop state st.
SplitBody(s, st) ==
  LET ch == s[st.i]
  IN IF ch = "("
       THEN [st EXCEPT !.depth = @ + 1, !.cur = Append(@, ch), !.i = @ + 1]
     ELSE IF ch = ")"
       THEN [st EXCEPT !.depth = @ - 1, !.cur = Append(@, ch), !.i = @ + 1]
     ELSE IF ch = "," /\ st.depth = 0
       THEN [st EXCEPT !.args = Append(@, strip(st.cur)), !.cur = <<>>,
                       !.i = @ + 1]
     ELSE [st EXCEPT !.cur = Append(@, ch), !.i = @ + 1]

\* The loop state at line 17-18.
SplitStart == [i |-> 1, depth |-> 0, cur |-> <<>>, args |-> <<>>]

\* Lines 33-35: the last piece is appended only when it is not blank.
SplitFinish(st) ==
  IF strip(st.cur) # <<>> THEN Append(st.args, strip(st.cur)) ELSE st.args

RECURSIVE SplitLoop(_, _)
SplitLoop(s, st) ==
  IF st.i <= Len(s) THEN SplitLoop(s, SplitBody(s, st)) ELSE st

split_top_level_args(s) == SplitFinish(SplitLoop(s, SplitStart))

\* ------------------------------------------------------------ strip_quotes
strip_quotes(s0) ==
  LET s == strip(s0)
  IN IF (StartsWith(s, <<"'">>) /\ EndsWith(s, <<"'">>))
        \/ (StartsWith(s, <<"\"">>) /\ EndsWith(s, <<"\"">>))
       THEN Slice(s, 2, Len(s) - 1)
       ELSE s

\* ------------------------------------------------------- json_path_lookup
\* str.split(sep) for a one-character separator: one part more than there
\* are separators, empty parts kept.
SplitOn(s, sep) ==
  LET seps == {i \in 1..Len(s) : s[i] = sep}
      \* the position of the k-th separator; 0 and Len(s) + 1 bound the ends
      SepAt(k) ==
        IF k = 0 THEN 0
        ELSE IF k > Cardinality(seps) THEN Len(s) + 1
        ELSE CHOOSE i \in seps : Cardinality({j \in seps : j < i}) = k - 1
  IN [k \in 1..(Cardinality(seps) + 1) |->
        Slice(s, SepAt(k - 1) + 1, SepAt(k) - 1)]

\* LookupLoop returning the value reached so far where a key is missing.
RECURSIVE LookupLoopPartial(_, _, _)
LookupLoopPartial(cur, parts, j) ==
  IF j > Len(parts) THEN cur
  ELSE IF cur.tag = "map" /\ parts[j] \in DOMAIN cur.m
         THEN LookupLoopPartial(cur.m[parts[j]], parts, j + 1)
         ELSE cur

\* The for loop of lines 95-101 from part j on.
RECURSIVE LookupLoop(_, _, _)
LookupLoop(cur, parts, j) ==
  IF j > Len(parts) THEN cur
  ELSE IF cur.tag = "map" /\ parts[j] \in DOMAIN cur.m
         THEN LookupLoop(cur.m[parts[j]], parts, j + 1)
         ELSE None

json_path_lookup(obj, path) ==
  IF ~StartsWith(path, <<"$", ".">>) THEN None
  ELSE LET Walk(parts) == LookupLoop(obj, parts, 1)
       IN Apply(Walk, SplitOn(Slice(path, 3, Len(path)), "."))

\* ------------------------------------------------------------------ FUNC_RE
\* ^(?P<name>[a-zA-Z0-9_]+)\((?P<args>.*)\)$ : a non-empty identifier, "(",
\* anything without a newline, and ")" as the last character.  The identifier
\* class excludes "(", so the name ends at the first "(".
FirstParen(e) ==
  CHOOSE p \in 1..Len(e) : e[p] = "(" /\ \A j \in 1..(p - 1) : e[j] # "("

FUNC_RE(e) ==
  /\ \E p \in 1..Len(e) : e[p] = "("
  /\ LET p == FirstParen(e)
     IN /\ p > 1
        /\ \A j \in 1..(p - 1) : e[j] \in IdentChars
        /\ Len(e) > p
        /\ e[Len(e)] = ")"
        /\ \A j \in (p + 1)..(Len(e) - 1) : e[j] # "\n"

\* m.group('name') and m.group('args')
FuncName(e) == Slice(e, 1, FirstParen(e) - 1)
FuncArgs(e) == Slice(e, FirstParen(e) + 1, Len(e) - 1)

\* ---------------------------------------------------------------- literals
\* int(expr) succeeds on an optional sign followed by decimal digits, single
\* underscores allowed between digits (expr is already stripped).
IntBody(s) == IF Len(s) > 0 /\ s[1] \in {"+", "-"} THEN Tail(s) ELSE s

IsIntLiteral(s) ==
  LET b == IntBody(s)
  IN /\ Len(b) > 0
     /\ b[1] \in Digits
     /\ b[Len(b)] \in Digits
     /\ \A i \in 1..Len(b) : b[i] \in Digits \cup {"_"}
     /\ \A i \in 1..(Len(b) - 1) : ~(b[i] = "_" /\ b[i + 1] = "_")

RECURSIVE DigitsValue(_, _)
DigitsValue(b, acc) ==
  IF b = <<>> THEN acc
  ELSE IF b[1] = "_" THEN DigitsValue(Tail(b), acc)
  ELSE DigitsValue(Tail(b), acc * 10 + DigitVal(b[1]))

IntValue(s) ==
  LET v == DigitsValue(IntBody(s), 0)
  IN IF s[1] = "-" THEN 0 - v ELSE v

\* Lines 46-53: a quoted token, else an integer, else the token itself.
Literal(e) ==
  IF StartsWith(e, <<"'">>) \/ StartsWith(e, <<"\"">>) THEN Str(strip_quotes(e))
  ELSE IF IsIntLiteral(e) THEN MkInt(IntValue(e))
  ELSE Str(e)

\* ------------------------------------------------------------ fromDateTime
\* datetime.fromisoformat on the forms
\*     YYYY-MM-DD
\*     YYYY-MM-DD(T| )HH:MM:SS[.fff|.ffffff][(+|-)HH:MM]
\* which every Python 3 release reads the same way; every other string is a
\* parse failure here.  The date strings the model feeds in are either of
\* these forms or rejected by every release.
IsLeap(y) == (y % 4 = 0 /\ y % 100 # 0) \/ y % 400 = 0
DaysInMonth(y, m) ==
  IF m = 2 THEN (IF IsLeap(y) THEN 29 ELSE 28)
  ELSE IF m \in {4, 6, 9, 11} THEN 30 ELSE 31

\* Days from 1970-01-01 to the proleptic Gregorian date y-m-d.
DaysFromCivil(y, m, d) ==
  LET yy == IF m <= 2 THEN y - 1 ELSE y
      era == yy \div 400
      yoe == yy - era * 400
      mp == (m + 9) % 12
      doy == (153 * mp + 2) \div 5 + d - 1
      doe == yoe * 365 + yoe \div 4 - yoe \div 100 + doy
  IN era * 146097 + doe - 719468

DigitsAt(s, ps) == \A p \in ps : p <= Len(s) /\ s[p] \in Digits
Num2(s, p) == DigitVal(s[p]) * 10 + DigitVal(s[p + 1])
RECURSIVE NumAt(_, _, _)
NumAt(s, p, n) == IF n = 0 THEN 0 ELSE NumAt(s, p, n - 1) * 10 + DigitVal(s[p + n - 1])

ParseFail == [ok |-> FALSE]

\* The UTC offset suffix: empty (a naive date-time) or (+|-)HH:MM.
ParseOffset(t) ==
  IF t = <<>> THEN [ok |-> TRUE, aware |-> FALSE, off |-> 0]
  ELSE IF Len(t) = 6 /\ t[1] \in {"+", "-"} /\ DigitsAt(t, {2, 3, 5, 6})
          /\ t[4] = ":" /\ Num2(t, 2) < 24 /\ Num2(t, 5) < 60
    THEN LET secs == Num2(t, 2) * 3600 + Num2(t, 5) * 60
         IN [ok |-> TRUE, aware |-> TRUE,
             off |-> IF t[1] = "-" THEN 0 - secs ELSE secs]
  ELSE [ok |-> FALSE, aware |-> FALSE, off |-> 0]

\* The fraction and offset after HH:MM:SS.
ParseTail(t) ==
  IF Len(t) >= 7 /\ t[1] = "." /\ DigitsAt(t, 2..7)
    THEN [us |-> NumAt(t, 2, 6), tzp |-> ParseOffset(Slice(t, 8, Len(t)))]
  ELSE IF Len(t) >= 4 /\ t[1] = "." /\ DigitsAt(t, 2..4)
    THEN [us |-> NumAt(t, 2, 3) * 1000, tzp |-> ParseOffset(Slice(t, 5, Len(t)))]
  ELSE [us |-> 0, tzp |-> ParseOffset(t)]

fromisoformat(s) ==
  IF ~(Len(s) >= 10 /\ DigitsAt(s, {1, 2, 3, 4, 6, 7, 9, 10})
       /\ s[5] = "-" /\ s[8] = "-")
    THEN ParseFail
  ELSE
    LET y == NumAt(s, 1, 4)
        m == Num2(s, 6)
        d == Num2(s, 9)
    IN IF ~(y >= 1 /\ m \in 1..12 /\ d >= 1 /\ d <= DaysInMonth(y, m))
         THEN ParseFail
       ELSE IF Len(s) = 10
         THEN [ok |-> TRUE, days |-> DaysFromCivil(y, m, d), secs |-> 0,
               us |-> 0, aware |-> FALSE, off |-> 0]
       ELSE IF ~(Len(s) >= 19 /\ s[11] \in {"T", " "}
                 /\ DigitsAt(s, {12, 13, 15, 16, 18, 19})
                 /\ s[14] = ":" /\ s[17] = ":"
                 /\ Num2(s, 12) < 24 /\ Num2(s, 15) < 60 /\ Num2(s, 18) < 60)
         THEN ParseFail
       ELSE
         LET t == ParseTail(Slice(s, 20, Len(s)))
         IN IF ~t.tzp.ok THEN ParseFail
            ELSE [ok |-> TRUE, days |-> DaysFromCivil(y, m, d),
                  secs |-> Num2(s, 12) * 3600 + Num2(s, 15) * 60 + Num2(s, 18),
                  us |-> t.us, aware |-> t.tzp.aware, off |-> t.tzp.off]

\* EpochMillis without the scaling and the int(): dt.timestamp() itself.
EpochSecondsFloat(dt, z) ==
  Float(dt.days * 86400 + dt.secs - (IF dt.aware THEN dt.off ELSE z * 60), 1)

\* int(dt.timestamp() * 1000), line 83.  timestamp() is the offset from the
\* epoch in seconds; a date-time without offset is taken as local time, z
\* minutes east of UTC (the process's time zone, an input the code reads from
\* its environment; it is passed down explicitly here).  With
\* S whole seconds (floor) and U microseconds, the product is S*1000 + U/1000
\* and int() drops its fraction towards zero: the floor when the product is
\* not negative or is whole, one more than the floor otherwise.  (The float
\* product is exact when U is a multiple of 15625, i.e. of 1/64 s; the date
\* strings of the model have such fractions.)
EpochMillis(dt, z) ==
  LET S == dt.days * 86400 + dt.secs
           - (IF dt.aware THEN dt.off ELSE z * 60)
      M == dt.us \div 1000
      R == dt.us % 1000
  IN IF S < 0 /\ R # 0
       THEN (IF M + 1 = 1000 THEN BigInt(S + 1, 0) ELSE BigInt(S, M + 1))
       ELSE BigInt(S, M)

\* Lines 75-85 on the value v of the first argument.
FromDateTimeValue(v, z) ==
  IF v.tag # "str" THEN None
  ELSE LET Millis(dt) == IF dt.ok THEN EpochMillis(dt, z) ELSE None
           Parse(iso) == Apply(Millis, fromisoformat(iso))
       IN Apply(Parse,
                IF EndsWith(v.s, <<"Z">>)
                  THEN Slice(v.s, 1, Len(v.s) - 1) \o <<"+", "0", "0", ":", "0", "0">>
                  ELSE v.s)

\* ---------------------------------------------------------------- eval_expr
jsonPathString == <<"j", "s", "o", "n", "P", "a", "t", "h", "S", "t", "r", "i", "n", "g">>
jsonPathInt == <<"j", "s", "o", "n", "P", "a", "t", "h", "I", "n", "t">>
coalesce == <<"c", "o", "a", "l", "e", "s", "c", "e">>
fromDateTime == <<"f", "r", "o", "m", "D", "a", "t", "e", "T", "i", "m", "e">>

\* Dispatch matching a prefix of the name instead of the whole name.
DispatchPrefix(name) ==
  IF StartsWith(name, jsonPathString) \/ StartsWith(name, jsonPathInt) THEN "jsonPath"
  ELSE IF StartsWith(name, coalesce) THEN "coalesce"
  ELSE IF StartsWith(name, fromDateTime) THEN "fromDateTime"
  ELSE "unknown"

\* The chain of name comparisons of lines 57, 64, 70 and the fallback of 87.
Dispatch(name) ==
  IF name = jsonPathString \/ name = jsonPathInt THEN "jsonPath"
  ELSE IF name = coalesce THEN "coalesce"
  ELSE IF name = fromDateTime THEN "fromDateTime"
  ELSE "unknown"

\* IsEmptyish as a truthiness test (not v): 0, False and {} are skipped too.
IsFalsy(v) ==
  \/ v.tag = "null"
  \/ (v.tag = "str" /\ v.s = <<>>)
  \/ (v.tag = "list" /\ v.l = <<>>)
  \/ (v.tag = "int" /\ v.k = 0 /\ v.r = 0)
  \/ (v.tag = "bool" /\ ~v.b)
  \/ (v.tag = "map" /\ DOMAIN v.m = {})

\* Line 67 negated: v in (None, '', []).
IsEmptyish(v) ==
  \/ v.tag = "null"
  \/ (v.tag = "str" /\ v.s = <<>>)
  \/ (v.tag = "list" /\ v.l = <<>>)

\* Lines 59-63.
JsonPathCall(args, payload) ==
  IF Len(args) # 2 THEN None
  ELSE LET Look(path) == json_path_lookup(payload, path)
       IN Apply(Look, strip_quotes(args[2]))

RECURSIVE eval_expr(_, _, _)
RECURSIVE CoalesceLoop(_, _, _, _)

\* The for loop of lines 65-69 from argument k on.
CoalesceLoop(args, k, payload, z) ==
  IF k > Len(args) THEN None
  ELSE LET v == eval_expr(args[k], payload, z)
       IN IF ~IsEmptyish(v) THEN v ELSE CoalesceLoop(args, k + 1, payload, z)

eval_expr(expr0, payload, z) ==
  LET e == strip(expr0)
  IN IF ~FUNC_RE(e) THEN Literal(e)
     ELSE LET name == FuncName(e)
              args == split_top_level_args(FuncArgs(e))
              kind == Dispatch(name)
          IN IF kind = "jsonPath" THEN JsonPathCall(args, payload)
             ELSE IF kind = "coalesce" THEN CoalesceLoop(args, 1, payload, z)
             ELSE IF kind = "fromDateTime"
               THEN (IF Len(args) < 1 THEN None
                     ELSE FromDateTimeValue(eval_expr(args[1], payload, z), z))
             ELSE None

\* ------------------------------------------------------------------ inputs
\* Sample documents.
KA == <<"a">>
KB == <<"b">>
KC == <<"c">>
Date2024Z == <<"2", "0", "2", "4", "-", "0", "1", "-", "0", "1", "T", "0", "0", ":", "0", "0", ":", "0", "0", "Z">>
DatePre1970 == <<"1", "9", "6", "9", "-", "1", "2", "-", "3", "1", "T", "2", "3", ":", "5", "9", ":", "5", "9", ".", "9", "8", "4", "3", "7", "5", "Z">>
DateOffset == <<"1", "9", "7", "0", "-", "0", "1", "-", "0", "1", "T", "0", "0", ":", "0", "0", ":", "0", "0", ".", "0", "1", "5", "6", "2", "5", "+", "0", "1", ":", "0", "0">>
DateNaive == <<"2", "0", "2", "4", "-", "0", "1", "-", "0", "1", "T", "0", "0", ":", "0", "0", ":", "0", "0">>
DateOnly == <<"2", "0", "2", "4", "-", "0", "1", "-", "0", "1">>
DateBadMonth == <<"2", "0", "2", "4", "-", "1", "3", "-", "0", "1", "T", "0", "0", ":", "0", "0", ":", "0", "0", "Z">>
NotADate == <<"n", "o", "t", "-", "a", "-", "d", "a", "t", "e">>
Pattern == <<"y", "y", "y", "y", "-", "M", "M", "-", "d", "d">>

\* {"a": {"b": 5}}, {"a": {}} and {} of the specification's examples.
DocAB5 == Map(KA :> Map(KB :> MkInt(5)))
DocAEmpty == Map(KA :> EmptyMap)
DocEmpty == EmptyMap
\* Every JSON type at the top level; "a" is a sequence; an empty-string key.
DocRich ==
  Map(KA :> List(<<MkInt(1)>>) @@ <<"s">> :> Str(<<>>) @@ <<"l">> :> List(<<>>)
      @@ <<"z">> :> MkInt(0) @@ <<"n">> :> None @@ <<"f">> :> Float(3, 2)
      @@ <<"t">> :> Bool(TRUE) @@ <<"d">> :> Str(Date2024Z)
      @@ <<>> :> Map(KB :> Str(<<"e">>)))
\* "a" is a scalar; "d" is not a date.
DocScalar ==
  Map(KA :> Str(<<"v">>) @@ <<"s">> :> Str(<<"x">>) @@ <<"l">> :> List(<<MkInt(0)>>)
      @@ <<"z">> :> MkInt(7) @@ <<"d">> :> Str(NotADate) @@ <<"f">> :> EmptyMap)
\* Three levels; "d" is an instant before the epoch.
DocDeep ==
  Map(KA :> Map(KB :> Map(KC :> Str(<<"w">>))) @@ <<"d">> :> Str(DatePre1970)
      @@ <<"n">> :> Str(DateNaive))
\* A document whose root is a sequence.
DocList == List(<<MkInt(1)>>)

Docs == {DocAB5, DocAEmpty, DocEmpty, DocRich, DocScalar, DocDeep, DocList}

\* Local time zones of the process, as minutes east of UTC.
Zones == {0, 60}

\* Expression text.
Q(s) == <<"'">> \o s \o <<"'">>
DQ(s) == <<"\"">> \o s \o <<"\"">>
Call(name, argtext) == name \o <<"(">> \o argtext \o <<")">>
Comma(a, b) == a \o <<",">> \o b
RECURSIVE Join(_)
Join(l) ==
  IF l = <<>> THEN <<>>
  ELSE IF Len(l) = 1 THEN l[1]
  ELSE Comma(l[1], Join(Tail(l)))

Dollar == <<"$">>
PathTexts ==
  {<<"$", ".", "a">>, <<"$", ".", "a", ".", "b">>, <<"$", ".", "a", ".", "b", ".", "c">>, <<"a", ".", "b">>, <<"$", ".">>, <<"$", ".", ".", "b">>, <<"$", "a", ".", "b">>,
   <<"$", ".", "s">>, <<"$", ".", "l">>, <<"$", ".", "z">>, <<"$", ".", "n">>, <<"$", ".", "f">>, <<"$", ".", "t">>, <<"$", ".", "d">>}
PathArgs ==
  {Q(p) : p \in PathTexts}
    \cup {DQ(<<"$", ".", "a", ".", "b">>), <<"$", ".", "a", ".", "b">>, <<" ">> \o Q(<<"$", ".", "a">>) \o <<" ">>, <<"'", "$", ".", "a">>}
JsonPathExprs ==
  {Call(jsonPathString, Comma(r, p)) : r \in {Dollar, Q(<<"r">>)}, p \in PathArgs}
    \cup {Call(jsonPathInt, Comma(Dollar, p)) : p \in PathArgs}

PathOf(k) == Call(jsonPathString, Comma(Dollar, Q(<<"$", ".">> \o k)))

WrongArityExprs ==
  {Call(jsonPathString, Q(<<"$", ".", "a">>)),
   Call(jsonPathString, Join(<<Dollar, Q(<<"$", ".", "a">>), <<>> >>)),
   Call(jsonPathInt, Join(<<Dollar, Q(<<"$", ".", "a">>), <<" ">> >>)),
   Call(jsonPathInt, Join(<<Dollar, Q(<<"$", ".", "a">>), Q(<<"x">>)>>)),
   Call(jsonPathInt, <<>>),
   Call(jsonPathString, Join(<<Dollar, <<>>, Q(<<"$", ".", "a">>)>>)),
   Call(jsonPathString, Comma(<<>>, Q(<<"$", ".", "a">>))),
   Call(jsonPathString, <<"(">> \o Comma(Dollar, Q(<<"$", ".", "a">>))),
   Call(fromDateTime, <<>>),
   Call(fromDateTime, <<" ">>),
   Call(fromDateTime, <<",">>)}

\* The arguments the generated coalesce calls are built from.
CoalesceAtoms ==
  {Q(<<>>), Q(<<"x">>), <<"0">>, PathOf(<<"l">>), PathOf(<<"z">>)}
RECURSIVE ArgLists(_)
ArgLists(n) ==
  IF n = 0 THEN {<<>>}
  ELSE LET shorter == ArgLists(n - 1)
       IN shorter \cup {Append(l, a) : l \in {x \in shorter : Len(x) = n - 1},
                                      a \in CoalesceAtoms}
CoalesceExprs ==
  {Call(coalesce, Join(l)) : l \in ArgLists(MaxArgs)}
    \cup {Call(coalesce, Join(<<Q(<<>>), PathOf(<<"n">>), Q(<<"x">>)>>)),
          Call(coalesce, Join(<<PathOf(<<"s">>), PathOf(<<"a">>)>>)),
          Call(coalesce, Join(<<PathOf(<<"f">>), PathOf(<<"t">>)>>)),
          Call(coalesce, Join(<<Call(coalesce, Comma(Q(<<>>), PathOf(<<"n">>))),
                                Q(<<"y">>)>>)),
          Call(coalesce, Join(<<<<>>, <<" ">> \o Q(<<"x">>), <<>> >>))}

DateArgs ==
  {Q(Date2024Z), Q(DatePre1970), Q(DateOffset), Q(DateNaive), Q(DateOnly),
   Q(DateBadMonth), Q(NotADate), Q(<<>>), DateOnly, <<"5">>,
   PathOf(<<"d">>), PathOf(<<"z">>), PathOf(<<"a">>), PathOf(<<"n">>),
   Call(coalesce, Comma(PathOf(<<"d">>), Q(Date2024Z))),
   Call(fromDateTime, Q(Date2024Z))}
FromDateTimeExprs ==
  {Call(fromDateTime, a) : a \in DateArgs}
    \cup {Call(fromDateTime, Comma(a, <<" ">> \o Q(Pattern))) : a \in DateArgs}

UnknownExprs ==
  {Call(<<"f", "o", "o">>, Comma(<<"1">>, <<"2">>)),
   Call(<<"C", "o", "a", "l", "e", "s", "c", "e">>, Q(<<"x">>)),
   Call(<<"c", "o", "a", "l", "e", "s", "c", "e", "2">>, Q(<<"x">>)),
   Call(<<"j", "s", "o", "n", "P", "a", "t", "h", "s", "t", "r", "i", "n", "g">>, Comma(Dollar, Q(<<"$", ".", "a">>))),
   Call(<<"F", "r", "o", "m", "D", "a", "t", "e", "T", "i", "m", "e">>, Q(Date2024Z)),
   Call(<<"_">>, Call(coalesce, Q(<<"x">>)))}

LiteralExprs ==
  {Q(<<"x">>), DQ(<<"y">>), Q(<<>>), <<>>, <<"5">>, <<"-", "3">>, <<"+", "5">>,
   <<"1", "_", "0">>, <<"1", "_">>, <<" ", "7", " ">>, <<"a", "b", "c">>,
   <<"'", "a">>, <<"x", "(", "y">>, <<"(", "x", ")">>, <<"a", "-", "b", "(", "1", ")">>}

Exprs ==
  JsonPathExprs \cup WrongArityExprs \cup CoalesceExprs \cup FromDateTimeExprs
    \cup UnknownExprs \cup LiteralExprs

\* Inputs of direct split_top_level_args calls: the specification's example,
\* empty pieces in every position, unbalanced parentheses, and the argument
\* text of every call expression above.
RawInputs ==
  {<<"a", "(", "b", ",", "c", ")", ",", " ", "d">>, <<"a", ",">>, <<",">>, <<",", "a">>, <<"a", ",", ",", "b">>, <<>>, <<" ">>, <<"a", ")", ",", "b">>, <<"(", "a", ",", "b">>,
   <<" ", "a", " ", ",", " ", "b", " ">>, <<"a">>, <<"f", "(", "a", ",", "b", ")", ",", "g", "(", "c", ",", "(", "d", ",", "e", ")", ")", ",", "h">>, <<"a", ",", " ">>, <<"(", "a", ")", ",", "(", "b", ")">>, <<"a", ",", "b", ",", "c">>}
    \cup {FuncArgs(e) : e \in {x \in Exprs : FUNC_RE(x)}}

\* ------------------------------------------------------------ the program
\* main after both files are loaded (lines 104-108): one sample, one process
\* time zone, no transform evaluated yet.
Init ==
  /\ sample \in Docs
  /\ tz \in Zones
  /\ expr = <<>>
  /\ val = None
  /\ ok = TRUE
  /\ pc = "start"
  /\ raw = <<>>
  /\ sargs = <<>>
  /\ stack = <<>>
  /\ ret = None
  /\ calls = 0

\* The function f written out as a table, so that it is computed once.
Table(f) == f @@ f

\* eval_expr on every input of the model.
Evaluated ==
  Table([x \in Exprs \X Docs \X Zones |-> eval_expr(x[1], x[2], x[3])])

\* Validate with a lookup that removes the key "a" it reads from the sample.
ValidatePopping ==
  /\ pc \in {"start", "loop"}
  /\ \E e \in Exprs :
       /\ expr' = e
       /\ val' = eval_expr(e, sample, tz)
       /\ ok' = (ok /\ eval_expr(e, sample, tz) # None)
  /\ sample' = IF sample.tag = "map"
                 THEN Map([k \in DOMAIN sample.m \ {KA} |-> sample.m[k]])
                 ELSE sample
  /\ pc' = "loop"
  /\ UNCHANGED <<tz, raw, sargs, stack, ret, calls>>

\* One iteration of main's loop (lines 115-121) on the next transform.
Validate ==
  /\ pc \in {"start", "loop"}
  /\ \E e \in Exprs :
       /\ expr' = e
       /\ val' = Evaluated[<<e, sample, tz>>]
       /\ ok' = (ok /\ Evaluated[<<e, sample, tz>>] # None)
  /\ pc' = "loop"
  /\ UNCHANGED <<sample, tz, raw, sargs, stack, ret, calls>>

\* The end of main: no transform at all (lines 110-112) or the summary
\* (lines 122-125).
Finish ==
  /\ pc \in {"start", "loop"}
  /\ pc' = IF pc = "start" THEN "empty" ELSE IF ok THEN "passed" ELSE "failed"
  /\ UNCHANGED <<sample, tz, expr, val, ok, raw, sargs, stack, ret, calls>>

\* A direct call split_top_level_args(r).
CallSplit ==
  /\ pc = "start"
  /\ \E r \in RawInputs :
       /\ raw' = r
       /\ sargs' = split_top_level_args(r)
  /\ pc' = "split"
  /\ UNCHANGED <<sample, tz, expr, val, ok, stack, ret, calls>>

Next == Validate \/ Finish \/ CallSplit

Spec == Init /\ [][Next]_vars

\* ------------------------------------------------ step-by-step evaluation
\* The same evaluation one code step at a time.  A frame is one active
\* eval_expr call: its expression e, its position ph, the state st of the
\* argument-splitting loop, its argument list args and the index k of the
\* coalesce loop.  Positions:
\*   "enter"     line 44, before the strip and the match
\*   "split"     inside the while loop of split_top_level_args (line 19)
\*   "dispatch"  line 57, the arguments are split
\*   "coalesce"  line 65, at the head of the for loop
\*   "co_wait"   line 66, the call for argument k has returned
\*   "fdt_wait"  line 74, the call for the first argument has returned
Frame(e) == [e |-> e, ph |-> "enter", st |-> SplitStart, args |-> <<>>, k |-> 0]
Top == stack[Len(stack)]

\* The documents the step machine runs on.
StepDocs == {DocAB5, DocRich, DocDeep}

InitStep ==
  /\ sample \in StepDocs
  /\ tz \in Zones
  /\ expr \in Exprs
  /\ stack = <<Frame(expr)>>
  /\ calls = 1
  /\ ret = None
  /\ val = None
  /\ ok = TRUE
  /\ pc = "eval"
  /\ raw = <<>>
  /\ sargs = <<>>

\* return v: the frame is popped; the outermost call hands v to main.
Return(v) ==
  /\ stack' = SubSeq(stack, 1, Len(stack) - 1)
  /\ ret' = v
  /\ IF Len(stack) = 1
       THEN /\ pc' = "done"
            /\ val' = v
            /\ ok' = (v # None)
       ELSE UNCHANGED <<pc, val, ok>>
  /\ UNCHANGED calls

\* ChildExpr passing the enclosing expression instead of the argument.
ChildExprWhole(f, i) == f.e

\* The expression a frame passes to the recursive call for its argument i
\* (line 66: a, line 74: args[0]).
ChildExpr(f, i) == f.args[i]

\* eval_expr(ChildExpr(Top, i), payload) is called and the caller waits at ph.
CallChild(i, ph) ==
  /\ Len(stack) < MaxDepth
  /\ stack' = Append([stack EXCEPT ![Len(stack)].ph = ph], Frame(ChildExpr(Top, i)))
  /\ calls' = calls + 1
  /\ UNCHANGED <<ret, pc, val, ok>>

Goto(f) ==
  /\ stack' = [stack EXCEPT ![Len(stack)] = f]
  /\ UNCHANGED <<ret, pc, val, ok, calls>>

\* Lines 44-55: strip, match; a literal returns at once.
Enter ==
  /\ pc = "eval" /\ Top.ph = "enter"
  /\ \E e \in {strip(Top.e)} :
        IF ~FUNC_RE(e) THEN Return(Literal(e))
        ELSE Goto([Top EXCEPT !.e = e, !.ph = "split"])
  /\ UNCHANGED <<sample, tz, expr, raw, sargs>>

\* One iteration of the while loop of lines 19-32.
SplitIter ==
  /\ pc = "eval" /\ Top.ph = "split"
  /\ Top.st.i <= Len(FuncArgs(Top.e))
  /\ Goto([Top EXCEPT !.st = SplitBody(FuncArgs(Top.e), Top.st)])
  /\ UNCHANGED <<sample, tz, expr, raw, sargs>>

\* The loop exit and lines 33-35.
SplitDone ==
  /\ pc = "eval" /\ Top.ph = "split"
  /\ Top.st.i > Len(FuncArgs(Top.e))
  /\ Goto([Top EXCEPT !.args = SplitFinish(Top.st), !.ph = "dispatch"])
  /\ UNCHANGED <<sample, tz, expr, raw, sargs>>

\* Lines 57-87 up to the first recursive call.
DispatchStep ==
  /\ pc = "eval" /\ Top.ph = "dispatch"
  /\ LET kind == Dispatch(FuncName(Top.e))
     IN IF kind = "jsonPath" THEN Return(JsonPathCall(Top.args, sample))
        ELSE IF kind = "coalesce"
          THEN Goto([Top EXCEPT !.ph = "coalesce", !.k = 1])
        ELSE IF kind = "fromDateTime"
          THEN (IF Len(Top.args) < 1 THEN Return(None)
                ELSE CallChild(1, "fdt_wait"))
        ELSE Return(None)
  /\ UNCHANGED <<sample, tz, expr, raw, sargs>>

\* Line 65-66: the next argument of coalesce, or line 69 when there is none.
CoalesceNext ==
  /\ pc = "eval" /\ Top.ph = "coalesce"
  /\ IF Top.k > Len(Top.args) THEN Return(None)
     ELSE CallChild(Top.k, "co_wait")
  /\ UNCHANGED <<sample, tz, expr, raw, sargs>>

\* Lines 67-68 on the value the call for argument k returned.
CoalesceRet ==
  /\ pc = "eval" /\ Top.ph = "co_wait"
  /\ IF ~IsEmptyish(ret) THEN Return(ret)
     ELSE Goto([Top EXCEPT !.ph = "coalesce", !.k = @ + 1])
  /\ UNCHANGED <<sample, tz, expr, raw, sargs>>

\* Lines 75-85 on the value the call for the first argument returned.
FromDateTimeRet ==
  /\ pc = "eval" /\ Top.ph = "fdt_wait"
  /\ Return(FromDateTimeValue(ret, tz))
  /\ UNCHANGED <<sample, tz, expr, raw, sargs>>

NextStep ==
  \/ Enter
  \/ SplitIter
  \/ SplitDone
  \/ DispatchStep
  \/ CoalesceNext
  \/ CoalesceRet
  \/ FromDateTimeRet

\* The interpreter is single-threaded and runs the call to its end: a step
\* that can be taken is taken.
SpecStep == InitStep /\ [][NextStep]_vars /\ WF_vars(NextStep)

\* ------------------------------------------------------------------ claims
\* The current transform has been evaluated.
HasVal == pc \in {"loop", "passed", "failed"}
\* expr as eval_expr reads it, and its parts when it is a call.
Trimmed == strip(expr)
IsCall == HasVal /\ FUNC_RE(Trimmed)
CallName == FuncName(Trimmed)
CallArgs == split_top_level_args(FuncArgs(Trimmed))
ArgVal(i) == eval_expr(CallArgs[i], sample, tz)

\* --- C1
\* The value the claim assigns to a path: after j segments the walk stands on
\* a value only if it stood on a mapping holding segment j.
RECURSIVE C1_At(_, _, _)
C1_At(doc, segs, j) ==
  IF j = 0 THEN [found |-> TRUE, v |-> doc]
  ELSE LET prev == C1_At(doc, segs, j - 1)
       IN IF prev.found /\ prev.v.tag = "map" /\ segs[j] \in DOMAIN prev.v.m
            THEN [found |-> TRUE, v |-> prev.v.m[segs[j]]]
            ELSE [found |-> FALSE, v |-> None]
C1_Expected(doc, p) ==
  LET segs == SplitOn(Slice(p, 3, Len(p)), ".")
  IN IF StartsWith(p, <<"$", ".">>) /\ C1_At(doc, segs, Len(segs)).found
       THEN C1_At(doc, segs, Len(segs)).v
       ELSE None
C1_IsJsonPath2(e) ==
  /\ FUNC_RE(strip(e))
  /\ FuncName(strip(e)) \in {jsonPathString, jsonPathInt}
  /\ Len(split_top_level_args(FuncArgs(strip(e)))) = 2
C1_Path(e) == strip_quotes(split_top_level_args(FuncArgs(strip(e)))[2])
\* The two-argument jsonPath calls among the inputs, each with its path.
C1_Calls == Table([e \in {x \in Exprs : C1_IsJsonPath2(x)} |-> C1_Path(e)])

\* C1: a two-argument jsonPathString/jsonPathInt call yields the value stored
\* at its quote-stripped path when the path starts with "$." and every
\* segment is a key of the mapping reached so far, and null in every other
\* case; every call with the same path yields the same value whatever its
\* first argument and whichever of the two names it uses.
Thm_C1 ==
  (HasVal /\ C1_IsJsonPath2(expr)) =>
    /\ val = C1_Expected(sample, C1_Path(expr))
    /\ \A e \in DOMAIN C1_Calls :
         C1_Calls[e] = C1_Path(expr) => Evaluated[<<e, sample, tz>>] = val

\* A resolved path under a first argument other than "$".
Wit_C1 ==
  /\ HasVal /\ C1_IsJsonPath2(expr)
  /\ CallArgs[1] # Dollar
  /\ val = MkInt(5)

\* --- C2
C2_Acceptable(v) == v # None /\ v # Str(<<>>) /\ v # List(<<>>)

\* C2: coalesce yields the value of its leftmost argument whose value is not
\* null, not the empty string and not an empty sequence (0 and non-empty
\* strings are taken), and null when there is none, zero arguments included;
\* the result is never the empty string or an empty sequence.
Thm_C2 ==
  (IsCall /\ CallName = coalesce) =>
    LET good == {i \in 1..Len(CallArgs) : C2_Acceptable(ArgVal(i))}
    IN /\ good = {} => val = None
       /\ good # {} => val = ArgVal(CHOOSE i \in good : \A j \in good : i <= j)
       /\ val # Str(<<>>)
       /\ val # List(<<>>)

\* An empty first argument is skipped and the integer 0 after it is returned.
Wit_C2 ==
  /\ IsCall /\ CallName = coalesce
  /\ Len(CallArgs) >= 2
  /\ ~C2_Acceptable(ArgVal(1))
  /\ val = MkInt(0)

\* --- C3
\* The first argument evaluates to a string that reads as a date-time with
\* offset once a trailing Z is replaced by +00:00.
C3_Iso(v) ==
  IF v.tag = "str" /\ EndsWith(v.s, <<"Z">>)
    THEN Slice(v.s, 1, Len(v.s) - 1) \o <<"+", "0", "0", ":", "0", "0">>
    ELSE v.s
C3_WithOffset(v) ==
  /\ v.tag = "str"
  /\ fromisoformat(C3_Iso(v)).ok
  /\ fromisoformat(C3_Iso(v)).aware
\* floor(seconds_since_epoch * 1000) of the parsed instant.
C3_Floor(v) ==
  LET dt == fromisoformat(C3_Iso(v))
  IN BigInt(dt.days * 86400 + dt.secs - dt.off, dt.us \div 1000)
IsFromDateTime == IsCall /\ CallName = fromDateTime /\ Len(CallArgs) >= 1

\* C3: fromDateTime of a string that parses as a date-time with offset is
\* floor(seconds_since_epoch * 1000) of that instant, instants before the
\* epoch and sub-millisecond fractions included.
Cex_C3 ==
  (IsFromDateTime /\ C3_WithOffset(ArgVal(1))) => val = C3_Floor(ArgVal(1))

\* --- C4
\* v is stored in document d under a chain of mapping keys.
RECURSIVE C4_Stored(_, _)
C4_Stored(d, v) ==
  /\ d.tag = "map"
  /\ \E k \in DOMAIN d.m : d.m[k] = v \/ C4_Stored(d.m[k], v)

\* C4 as stated: every value evaluate returns is a string, an integer or
\* null.
Cex_C4 == HasVal => val.tag \in {"str", "int", "null"}

\* C4 as amended: every value evaluate returns is a string, an integer, null
\* or a value stored in the document under a chain of mapping keys (of any
\* JSON type, passed through as it is); a fromDateTime call returns only an
\* integer or null and a non-call expression only a string or an integer.
Thm_C4 ==
  HasVal =>
    /\ val.tag \in {"str", "int", "null"} \/ C4_Stored(sample, val)
    /\ (IsCall /\ CallName = fromDateTime) => val.tag \in {"int", "null"}
    /\ ~FUNC_RE(Trimmed) => val.tag \in {"str", "int"}

\* A mapping of the document comes back as the result.
Wit_C4 == HasVal /\ val.tag = "map" /\ C4_Stored(sample, val)

\* --- C10
\* The pieces the claim describes: cut at the commas preceded by as many "("
\* as ")", trim each piece, keep every piece.
C10_Depth(s, i) ==
  Cardinality({j \in 1..(i - 1) : s[j] = "("})
    - Cardinality({j \in 1..(i - 1) : s[j] = ")"})
C10_Cuts(s) == {i \in 1..Len(s) : s[i] = "," /\ C10_Depth(s, i) = 0}
C10_Expected(s) ==
  IF strip(s) = <<>> THEN <<>>
  ELSE LET cuts == C10_Cuts(s)
           n == Cardinality(cuts)
           CutAt(k) == CHOOSE c \in cuts : Cardinality({d \in cuts : d < c}) = k - 1
           First(k) == IF k = 1 THEN 1 ELSE CutAt(k - 1) + 1
           Last(k) == IF k = n + 1 THEN Len(s) ELSE CutAt(k) - 1
       IN [k \in 1..(n + 1) |-> strip(Slice(s, First(k), Last(k)))]

\* C10: split_top_level_args cuts exactly at the depth-0 commas and returns
\* one trimmed piece per comma-delimited piece, empty pieces included
\* wherever they occur; a blank input gives no pieces.
Cex_C10 == pc = "split" => sargs = C10_Expected(raw)

\* --- C6
\* C6: jsonPathString/jsonPathInt with a number of top-level comma-delimited
\* arguments other than 2, and fromDateTime with none, evaluate to null.
Cex_C6 ==
  (/\ IsCall
   /\ \/ /\ CallName \in {jsonPathString, jsonPathInt}
         /\ Len(C10_Expected(FuncArgs(Trimmed))) # 2
      \/ /\ CallName = fromDateTime
         /\ Len(C10_Expected(FuncArgs(Trimmed))) = 0)
    => val = None

\* --- C7
\* C7: fromDateTime is null whenever its first argument's value is not a
\* string or is a string that is not a date-time with offset.
Cex_C7 == (IsFromDateTime /\ ~C3_WithOffset(ArgVal(1))) => val = None

C5_Bounded ==
  /\ \A i \in 2..Len(stack) : Len(stack[i].e) < Len(stack[i - 1].e)
  /\ Len(stack) - 1 <= Len(expr)
  /\ \A i \in 1..Len(stack) :
       stack[i].ph = "split" =>
         (stack[i].st.i >= 1 /\ stack[i].st.i <= Len(FuncArgs(stack[i].e)) + 1)
\* Every iteration of the splitting loop moves its index one character on.
C5_Advance ==
  (Len(stack) = Len(stack') /\ Top.ph = "split" /\ Top'.ph = "split")
    => Top'.st.i = Top.st.i + 1

C8_Unknown(e) ==
  /\ FUNC_RE(strip(e))
  /\ FuncName(strip(e)) \notin {jsonPathString, jsonPathInt, coalesce, fromDateTime}

\* C8: a call whose name is not exactly one of the four function names makes
\* no recursive call for its arguments and returns null.
Thm_C8 ==
  /\ \A i \in 1..Len(stack) : C8_Unknown(stack[i].e) => i = Len(stack)
  /\ C8_Unknown(expr) => (calls = 1 /\ (pc = "done" => val = None))

\* An unknown call with a known call as its argument has returned.
Wit_C8 ==
  /\ pc = "done" /\ C8_Unknown(expr)
  /\ \E i \in 1..Len(CallArgs) : FUNC_RE(CallArgs[i])

====
